---- MODULE Spec2Model ----
(***************************************************************************)
(* CivicSense: issue intake, lifecycle and analytics.                      *)
(* State machine of the Express handlers of server/routes/api.js over the  *)
(* Mongoose collection declared by the Issue schema.  Every handler is cut *)
(* at its awaits: the synchronous prefix that runs when the request        *)
(* arrives, and one step per awaited store call together with the          *)
(* synchronous code that follows it.                                       *)
(***************************************************************************)
EXTENDS Integers, Sequences, FiniteSets, TLC

(* ---------------- bounds of the model ---------------- *)

\* number of request handlers that may be in flight at once
NumProcs == 2
\* the collection holds at most this many issues
MaxIssues == 2
\* the clock stops advancing at this tick
MaxTime == 1
\* a collection found at start-up holds at most this many issues
MaxSeeded == 3
\* the citizen portal has at most this many location requests and report
\* submissions outstanding together
MaxOutstanding == 2

(* ---------------- program constants ---------------- *)

\* generateIssueId: Math.floor(100000 + Math.random() * 900000)
IdBase == 100000
IdSpan == 900000
\* avgResolutionTimeMs / (1000 * 60 * 60)
MsPerHour == 3600000
\* one tick of the model clock, in milliseconds of Date.getTime()
TickMs == 1800000
\* a Date field that was never set (undefined / null)
NoDate == -1
\* assignedTo of an unassigned issue
NoUser == "unassigned"

Procs == 1..NumProcs

\* IssueSchema.issueType enum
IssueTypeEnum == {"Pothole", "Garbage Overflow", "Streetlight Outage", "Water Leakage", "Other"}
\* IssueSchema.status enum
StatusEnum == {"Pending", "Acknowledged", "In Progress", "Resolved"}
\* UserSchema.department enum
DepartmentEnum == {"Sanitation", "Public Works", "Electrical", "Water Department", "General Services"}

(* ---------------- inputs the requests are drawn from ---------------- *)

\* floor(Math.random() * 900000): both ends of the range and a middle value
RandDraws == {0, IdSpan - 1}
\* issueType values a citizen may post; "Fountain" is outside the enum
InputCategories == {"Pothole", "Fountain"}
\* status values an admin may post; "" is a missing field, "Closed" is outside the enum
InputStatuses == {"", "In Progress", "Resolved", "Closed"}
\* the users collection (provisioned out of band): _id -> name, department
Users == {[_id |-> "u1", name |-> "Asha", department |-> "Public Works"]}
UserIds == {u._id : u \in Users}
\* userId values an admin may post: missing, a staff member, a well-formed
\* ObjectId of no user, a string that is no ObjectId
InputUserIds == {"", "u1", "u9", "not-an-id"}
\* strings that cast to Schema.Types.ObjectId
WellFormedObjectIds == {"u1", "u9"}

(* ---------------- pure functions ---------------- *)

\* Number.prototype.toString of a non-negative integer, as its decimal digits
RECURSIVE ToDigits(_)
ToDigits(n) == IF n < 10 THEN <<n>> ELSE ToDigits(n \div 10) \o <<n % 10>>

\* generateIssueId with u = floor(Math.random() * 900000)
generateIssueId(u) == ToDigits(IdBase + u)

\* the ids the generator can produce in this model
DrawnIds == {generateIssueId(u) : u \in RandDraws}
\* issueId values a request may carry: missing, a generated id, an id never generated
InputIssueIds == {<< >>} \cup DrawnIds

\* a routing whose first two branches are exchanged
assignedDepartmentSwapped(issueType) ==
    IF issueType = "Garbage Overflow" THEN "Public Works"
    ELSE IF issueType = "Pothole" THEN "Sanitation"
    ELSE IF issueType = "Streetlight Outage" THEN "Electrical"
    ELSE IF issueType = "Water Leakage" THEN "Water Department"
    ELSE "General Services"

\* department routing of POST /report
assignedDepartment(issueType) ==
    IF issueType = "Garbage Overflow" THEN "Sanitation"
    ELSE IF issueType = "Pothole" THEN "Public Works"
    ELSE IF issueType = "Streetlight Outage" THEN "Electrical"
    ELSE IF issueType = "Water Leakage" THEN "Water Department"
    ELSE "General Services"

\* the form bodies POST /report receives: every field present for each
\* category, and one body per required field with that field missing
FullBody(cat) ==
    [issueType |-> cat, latitude |-> "12.97", longitude |-> "77.59",
     description |-> "text", citizenContact |-> "c1"]
ReportBodies ==
    {FullBody(cat) : cat \in InputCategories} \cup
    {[FullBody("Pothole") EXCEPT ![f] = ""] :
        f \in {"issueType", "latitude", "longitude", "description", "citizenContact"}}
\* every category of the report form's select, and one the form does not offer
RoutedCategories == IssueTypeEnum \cup {"Fountain"}
\* complete form bodies of one category, one per citizen contact
ContactBodies == {[FullBody("Pothole") EXCEPT !.citizenContact = c] : c \in {"c1", "c2"}}
\* complete form bodies, one per category
CategoryBodies == {FullBody(cat) : cat \in RoutedCategories}

\* a field check that leaves the contact out
MissingRequiredButContact(body) ==
    \/ body.issueType = ""
    \/ body.latitude = ""
    \/ body.longitude = ""
    \/ body.description = ""

\* !issueType || !latitude || !longitude || !description || !citizenContact
MissingRequired(body) ==
    \/ body.issueType = ""
    \/ body.latitude = ""
    \/ body.longitude = ""
    \/ body.description = ""
    \/ body.citizenContact = ""

\* new Issue({...}): schema defaults applied, timestamps not yet set
NewIssue(body, u) ==
    [issueId |-> generateIssueId(u),
     issueType |-> body.issueType,
     citizenContact |-> body.citizenContact,
     assignedDepartment |-> assignedDepartment(body.issueType),
     status |-> "Pending",
     assignedTo |-> NoUser,
     resolvedAt |-> NoDate,
     createdAt |-> NoDate]

\* schema validation run by document.save()
SchemaValid(doc) ==
    /\ doc.issueId # << >>
    /\ doc.issueType \in IssueTypeEnum
    /\ doc.status \in StatusEnum
    /\ doc.citizenContact # ""
    /\ doc.assignedDepartment # ""
    /\ doc.assignedTo \in {NoUser} \cup WellFormedObjectIds

(* ---------------- state ---------------- *)

VARIABLES
    issues,   \* the issues collection, in insertion order; _id is the position
    now,      \* the server clock, in ticks
    pc,       \* pc[p]: where handler p stands
    loc,      \* loc[p]: the request and the handler's local variables
    last,     \* the exchange completed by the step just taken, if any
    page      \* the citizen portal page open in one browser

vars == <<issues, now, pc, loc, last, page>>

NoBody ==
    [issueType |-> "", latitude |-> "", longitude |-> "",
     description |-> "", citizenContact |-> ""]
NoUpdate == [status |-> "", resolvedAt |-> NoDate]
NoLoc ==
    [body |-> NoBody, issueId |-> << >>, status |-> "", userId |-> "",
     issue |-> << >>, _id |-> 0, updateData |-> NoUpdate, existed |-> FALSE,
     resolvedIssues |-> << >>, avgResolutionTimeHours |-> << >>, trendData |-> << >>]
\* an exchange: the request (kind, body, issueId, status, userId), the response
\* (code and the json fields), the error caught by the handler, the
\* notifications handed to the gateway, whether the store write was applied
NoLast ==
    [kind |-> "none", code |-> 0, error |-> "",
     body |-> NoBody, reqIssueId |-> << >>, status |-> "", userId |-> "",
     issueId |-> << >>, issue |-> << >>, summary |-> << >>,
     resolvedIssues |-> << >>, sent |-> << >>, wrote |-> FALSE]

\* the unique index on issueId: the ids in the collection
StoredIds == {issues[i].issueId : i \in 1..Len(issues)}
\* a filter that every document passes
MatchingAnyDocument(id) == 1..Len(issues)

\* positions matching { issueId }
Matching(id) == {i \in 1..Len(issues) : issues[i].issueId = id}
\* the first document of the collection, whatever the filter
FirstInCollection(id) == CHOOSE i \in 1..Len(issues) : \A j \in 1..Len(issues) : i <= j

\* findOne returns the first match in natural order
FirstMatch(id) == CHOOSE i \in Matching(id) : \A j \in Matching(id) : i <= j
\* Issue.findOne({ issueId }): the document, or nothing
findOne(id) == IF Matching(id) = {} THEN << >> ELSE <<issues[FirstMatch(id)]>>

\* the positions navigator.geolocation may report
Positions == {[latitude |-> "12.97", longitude |-> "77.59"],
              [latitude |-> "13.08", longitude |-> "80.27"]}

\* the portal once its DOMContentLoaded handler has run: submitBtn.disabled =
\* true, then getGeoLocation(), which leaves one location request outstanding
\* when the browser has navigator.geolocation
LoadedPage(geolocation) ==
    [geolocation |-> geolocation,
     latitude |-> "", longitude |-> "",
     issueType |-> "", description |-> "", citizenContact |-> "",
     submitDisabled |-> TRUE,
     geoRequests |-> IF geolocation THEN 1 ELSE 0,
     fetches |-> << >>,
     reportResult |-> ""]

Init ==
    /\ issues = << >>
    /\ now = 0
    /\ pc = [p \in Procs |-> "idle"]
    /\ loc = [p \in Procs |-> NoLoc]
    /\ last = NoLast
    /\ page = LoadedPage(TRUE)

(* ---------------- helpers of the handlers ---------------- *)

\* res.status(code).json(...): the handler is finished, its slot is free
Respond(p, exchange) ==
    /\ last' = exchange
    /\ pc' = [pc EXCEPT ![p] = "idle"]
    /\ loc' = [loc EXCEPT ![p] = NoLoc]
    /\ UNCHANGED page

\* the handler moves on to its next await
Goto(p, label, locals) ==
    /\ pc' = [pc EXCEPT ![p] = label]
    /\ loc' = [loc EXCEPT ![p] = locals]
    /\ last' = NoLast
    /\ UNCHANGED page

\* the request of handler p, as the exchange records it
Request(p, kind) ==
    [NoLast EXCEPT !.kind = kind, !.body = loc[p].body, !.reqIssueId = loc[p].issueId,
                   !.status = loc[p].status, !.userId = loc[p].userId]

\* a handler that notifies before its store call: the failure it catches
\* comes after the message has gone out
CaughtAfterNotifying(p, kind, error) ==
    [Request(p, kind) EXCEPT
        !.code = 500, !.error = error,
        !.sent = <<[to |-> "c1", about |-> loc[p].issueId, text |-> kind, delivered |-> TRUE]>>]

\* catch (error) { res.status(500) }
Caught(p, kind, error) == [Request(p, kind) EXCEPT !.code = 500, !.error = error]

\* the message sendNotification hands to the gateway
Notification(contact, about, text, delivered) ==
    [to |-> contact, about |-> about, text |-> text, delivered |-> delivered]

\* a gateway failure surfacing as an exception of sendNotification
sendNotificationThrowsOnFailure(delivered) == ~delivered

\* sendNotification(contact, message) logs and returns: it throws neither when
\* the gateway delivers nor when it does not
sendNotificationThrows(delivered) == FALSE

\* an index that admits every insert
NoUniqueIndex(doc) == FALSE

\* unique index on issueId: the insert fails with E11000 duplicate key
InsertRejected(doc) == doc.issueId \in StoredIds

(* ---------------- POST /report ---------------- *)

\* request arrives with a body of the given set: field check, routing, id
\* generation, new Issue(...), save() called
CreateStartWith(p, bodies) ==
    /\ pc[p] = "idle"
    /\ Len(issues) + Cardinality({q \in Procs : pc[q] = "create_save"}) < MaxIssues
    /\ \E body \in bodies, u \in RandDraws :
        IF MissingRequired(body)
        THEN Respond(p, [NoLast EXCEPT !.kind = "report", !.body = body, !.code = 400])
        ELSE Goto(p, "create_save",
                  [NoLoc EXCEPT !.body = body, !.issue = <<NewIssue(body, u)>>])
    /\ UNCHANGED <<issues, now>>

CreateStart(p) == CreateStartWith(p, ReportBodies)

\* a complete report from any contact
CreateStartAnyContact(p) == CreateStartWith(p, ContactBodies)

\* a complete report of any category
CreateStartAnyCategory(p) == CreateStartWith(p, CategoryBodies)

\* await newIssue.save(), then the notification and the 201; any throw is the 500
CreateSave(p) ==
    /\ pc[p] = "create_save"
    /\ LET doc == loc[p].issue[1] IN
        \/ /\ Respond(p, Caught(p, "report", "StoreUnavailable"))
           /\ UNCHANGED issues
        \/ /\ ~SchemaValid(doc)
           /\ Respond(p, Caught(p, "report", "ValidationError"))
           /\ UNCHANGED issues
        \/ /\ SchemaValid(doc)
           /\ InsertRejected(doc)
           /\ Respond(p, Caught(p, "report", "DuplicateKey"))
           /\ UNCHANGED issues
        \/ /\ SchemaValid(doc)
           /\ ~InsertRejected(doc)
           /\ issues' = Append(issues, [doc EXCEPT !.createdAt = now])
           /\ \E delivered \in BOOLEAN :
                LET note == Notification(doc.citizenContact, doc.issueId, "received", delivered)
                    done == [Request(p, "report") EXCEPT !.wrote = TRUE, !.sent = <<note>>]
                IN IF sendNotificationThrows(delivered)
                   THEN Respond(p, [done EXCEPT !.code = 500, !.error = "NotificationFailure"])
                   ELSE Respond(p, [done EXCEPT !.code = 201, !.issueId = doc.issueId])
    /\ UNCHANGED now

(* ---------------- POST /update_status ---------------- *)

\* an updateData that stamps resolvedAt whatever the status
UpdateDataAlwaysStamped(status, t) == [status |-> status, resolvedAt |-> t]

\* const updateData = { status }; if (status === 'Resolved') updateData.resolvedAt = new Date()
UpdateData(status, t) ==
    [status |-> status, resolvedAt |-> IF status = "Resolved" THEN t ELSE NoDate]

\* request arrives with a status of the given set: field check, updateData
\* built (new Date() read here); existed records, for the properties only,
\* whether the issue was in the collection when the request arrived
StatusStartWith(p, statuses) ==
    /\ pc[p] = "idle"
    /\ \E id \in InputIssueIds, status \in statuses :
        IF id = << >> \/ status = ""
        THEN Respond(p, [NoLast EXCEPT !.kind = "update_status", !.reqIssueId = id,
                                       !.status = status, !.code = 400])
        ELSE Goto(p, "status_update",
                  [NoLoc EXCEPT !.issueId = id, !.status = status,
                                !.updateData = UpdateData(status, now),
                                !.existed = (Matching(id) # {})])
    /\ UNCHANGED <<issues, now>>

StatusStart(p) == StatusStartWith(p, InputStatuses)

\* the admin dashboard's "Resolve" option only
StatusStartResolve(p) == StatusStartWith(p, {"Resolved"})

\* an update without $set that replaces the document by updateData: the
\* paths updateData does not name are lost
ApplyReplacement(doc, updateData) ==
    [doc EXCEPT !.status = updateData.status,
                !.resolvedAt = updateData.resolvedAt,
                !.issueType = "",
                !.assignedDepartment = ""]

\* { $set: updateData } on one document: status always, resolvedAt only when
\* updateData carries it; update validators are off (no runValidators option)
ApplySet(doc, updateData) ==
    [doc EXCEPT !.status = updateData.status,
                !.resolvedAt = IF updateData.resolvedAt # NoDate
                               THEN updateData.resolvedAt ELSE @]

\* await Issue.findOneAndUpdate({issueId}, {$set: updateData}, {new: true}),
\* then the 404, or the notification and the 200
StatusUpdate(p) ==
    /\ pc[p] = "status_update"
    /\ LET id == loc[p].issueId IN
        \/ /\ Respond(p, Caught(p, "update_status", "StoreUnavailable"))
           /\ UNCHANGED issues
        \/ /\ Matching(id) = {}
           /\ Respond(p, [Request(p, "update_status") EXCEPT !.code = 404])
           /\ UNCHANGED issues
        \/ /\ Matching(id) # {}
           /\ LET i == FirstMatch(id)
                  updatedIssue == ApplySet(issues[i], loc[p].updateData) IN
                /\ issues' = [issues EXCEPT ![i] = updatedIssue]
                /\ \E delivered \in BOOLEAN :
                    LET note == Notification(updatedIssue.citizenContact, id,
                                             loc[p].status, delivered)
                        done == [Request(p, "update_status") EXCEPT
                                    !.wrote = TRUE, !.sent = <<note>>]
                    IN IF sendNotificationThrows(delivered)
                       THEN Respond(p, [done EXCEPT !.code = 500,
                                                    !.error = "NotificationFailure"])
                       ELSE Respond(p, [done EXCEPT !.code = 200,
                                                    !.issue = <<updatedIssue>>])
    /\ UNCHANGED now

(* ---------------- GET /track_status/:issue_id ---------------- *)

TrackStatus(p) ==
    /\ pc[p] = "idle"
    /\ \E id \in InputIssueIds \ {<< >>} :
        LET asked == [NoLast EXCEPT !.kind = "track_status", !.reqIssueId = id] IN
        \/ Respond(p, [asked EXCEPT !.code = 500, !.error = "StoreUnavailable"])
        \/ /\ findOne(id) = << >>
           /\ Respond(p, [asked EXCEPT !.code = 404])
        \/ /\ findOne(id) # << >>
           /\ Respond(p, [asked EXCEPT !.code = 200, !.issue = findOne(id)])
    /\ UNCHANGED <<issues, now>>

(* ---------------- POST /assign_issue ---------------- *)

\* request arrives: field check, then await Issue.findOne({ issueId })
AssignFind(p) ==
    /\ pc[p] = "idle"
    /\ \E id \in InputIssueIds, userId \in InputUserIds :
        LET asked == [NoLast EXCEPT !.kind = "assign_issue", !.reqIssueId = id,
                                    !.userId = userId] IN
        IF id = << >> \/ userId = ""
        THEN Respond(p, [asked EXCEPT !.code = 400])
        ELSE \/ Respond(p, [asked EXCEPT !.code = 500, !.error = "StoreUnavailable"])
             \/ /\ findOne(id) = << >>
                /\ Respond(p, [asked EXCEPT !.code = 404])
             \/ /\ findOne(id) # << >>
                /\ Goto(p, "assign_save",
                        [NoLoc EXCEPT !.issueId = id, !.userId = userId,
                                      !.issue = findOne(id), !._id = FirstMatch(id)])
    /\ UNCHANGED <<issues, now>>

\* a save that writes the whole document as the handler read it
SaveWholeDocument(stored, doc) == doc

\* document.save() of a loaded document: $set of its modified paths, here
\* assignedTo alone, on the stored document
SaveModifiedPaths(stored, doc) == [stored EXCEPT !.assignedTo = doc.assignedTo]

\* issue.assignedTo = userId; await issue.save(): the document is validated,
\* then the modified path alone is written to the document with that _id
AssignSave(p) ==
    /\ pc[p] = "assign_save"
    /\ LET issue == [loc[p].issue[1] EXCEPT !.assignedTo = loc[p].userId] IN
        \/ /\ Respond(p, Caught(p, "assign_issue", "StoreUnavailable"))
           /\ UNCHANGED issues
        \/ /\ ~SchemaValid(issue)
           /\ Respond(p, Caught(p, "assign_issue", "ValidationError"))
           /\ UNCHANGED issues
        \/ /\ SchemaValid(issue)
           /\ issues' = [issues EXCEPT ![loc[p]._id] = SaveModifiedPaths(@, issue)]
           /\ Goto(p, "assign_populate", [loc[p] EXCEPT !.issue = <<issue>>])
    /\ UNCHANGED now

\* populate('assignedTo', 'name department'): the user document with that _id,
\* null when there is none
populate(doc) ==
    [doc EXCEPT !.assignedTo =
        IF doc.assignedTo \in UserIds THEN doc.assignedTo ELSE NoUser]

\* await Issue.findById(issue._id).populate(...), then the 200
AssignPopulate(p) ==
    /\ pc[p] = "assign_populate"
    /\ LET done == [Request(p, "assign_issue") EXCEPT !.wrote = TRUE] IN
        \/ Respond(p, [done EXCEPT !.code = 500, !.error = "StoreUnavailable"])
        \/ Respond(p, [done EXCEPT !.code = 200,
                                   !.issue = <<populate(issues[loc[p]._id])>>])
    /\ UNCHANGED <<issues, now>>

(* ---------------- GET /analytics ---------------- *)

\* Date.getTime() of a clock reading
getTime(t) == t * TickMs

\* issue.reportedAt: the schema has no such path (its timestamps are createdAt
\* and updatedAt), so the property is undefined on every document
reportedAt(issue) == NoDate

\* x instanceof Date
IsDate(x) == x # NoDate

\* the forEach over resolvedIssues: the documents that are counted
Counted(docs) ==
    {k \in 1..Len(docs) : IsDate(docs[k].resolvedAt) /\ IsDate(reportedAt(docs[k]))}

RECURSIVE SumResolutionTimeMs(_, _)
SumResolutionTimeMs(docs, ks) ==
    IF ks = {} THEN 0
    ELSE LET k == CHOOSE x \in ks : TRUE IN
         (getTime(docs[k].resolvedAt) - getTime(reportedAt(docs[k])))
            + SumResolutionTimeMs(docs, ks \ {k})

totalResolutionTimeMs(docs) == SumResolutionTimeMs(docs, Counted(docs))
validResolvedCount(docs) == Cardinality(Counted(docs))

\* (totalMs / count / (1000 * 60 * 60)).toFixed(1) for totalMs >= 0: the
\* nearest number of tenths, halves rounded up, as integer digits and one
\* fraction digit
toFixed1(totalMs, count) ==
    LET tenths == (2 * totalMs + count * (MsPerHour \div 10))
                    \div (2 * count * (MsPerHour \div 10))
    IN [int |-> ToDigits(tenths \div 10), frac |-> tenths % 10]

\* validResolvedCount > 0 ? total / count : 0, then hours with one decimal
avgResolutionTimeHours(docs) ==
    IF validResolvedCount(docs) > 0
    THEN toFixed1(totalResolutionTimeMs(docs), validResolvedCount(docs))
    ELSE toFixed1(0, 1)

\* { $group: { _id: '$field', count: { $sum: 1 } } } over the collection
GroupCount(field) ==
    {[_id |-> v, count |-> Cardinality({i \in 1..Len(issues) : issues[i][field] = v})] :
        v \in {issues[i][field] : i \in 1..Len(issues)}}

\* a $sort with the direction reversed: counts not decreasing
SortedByCountAsc(groups) ==
    {s \in [1..Cardinality(groups) -> groups] :
        /\ \A a, b \in DOMAIN s : a # b => s[a] # s[b]
        /\ \A a, b \in DOMAIN s : a < b => s[a].count <= s[b].count}

\* { $sort: { count: -1 } }: any order of the groups with counts not increasing
SortedByCountDesc(groups) ==
    {s \in [1..Cardinality(groups) -> groups] :
        /\ \A a, b \in DOMAIN s : a # b => s[a] # s[b]
        /\ \A a, b \in DOMAIN s : a < b => s[a].count >= s[b].count}

\* await Issue.find({ status: 'Resolved', resolvedAt: { $ne: null } }), then the average
AnalyticsFind(p) ==
    /\ pc[p] = "idle"
    /\ \/ Respond(p, [NoLast EXCEPT !.kind = "analytics", !.code = 500,
                                    !.error = "StoreUnavailable"])
       \/ LET resolvedIssues ==
                SelectSeq(issues, LAMBDA d : d.status = "Resolved" /\ d.resolvedAt # NoDate)
          IN Goto(p, "analytics_trend",
                  [NoLoc EXCEPT !.resolvedIssues = resolvedIssues,
                                !.avgResolutionTimeHours =
                                    <<avgResolutionTimeHours(resolvedIssues)>>])
    /\ UNCHANGED <<issues, now>>

\* await Issue.aggregate([$group by issueType, $sort by count descending])
AnalyticsTrend(p) ==
    /\ pc[p] = "analytics_trend"
    /\ \/ Respond(p, [NoLast EXCEPT !.kind = "analytics", !.code = 500,
                                    !.error = "StoreUnavailable"])
       \/ \E trendData \in SortedByCountDesc(GroupCount("issueType")) :
            Goto(p, "analytics_status", [loc[p] EXCEPT !.trendData = trendData])
    /\ UNCHANGED <<issues, now>>

\* await Issue.aggregate([$group by status]), then the 200
AnalyticsStatus(p) ==
    /\ pc[p] = "analytics_status"
    /\ \/ Respond(p, [NoLast EXCEPT !.kind = "analytics", !.code = 500,
                                    !.error = "StoreUnavailable"])
       \/ Respond(p, [NoLast EXCEPT
                !.kind = "analytics", !.code = 200,
                !.resolvedIssues = loc[p].resolvedIssues,
                !.summary = <<[avgResolutionTimeHours |-> loc[p].avgResolutionTimeHours[1],
                               trendData |-> loc[p].trendData,
                               statusCounts |-> GroupCount("status")]>>])
    /\ UNCHANGED <<issues, now>>

\* updateAnalytics of the dashboard: the category shown as most reported
mostReported(trendData) ==
    IF Len(trendData) > 0 THEN trendData[1]._id ELSE "N/A"

(* ---------------- citizen portal ---------------- *)

\* what the citizen may type into the report form
TypedFields == {"issueType", "description", "citizenContact"}
TypedValue(f) ==
    IF f = "issueType" THEN "Pothole" ELSE IF f = "description" THEN "text" ELSE "c1"

\* new FormData(reportForm): the fields POST /report reads
FormData ==
    [issueType |-> page.issueType, latitude |-> page.latitude,
     longitude |-> page.longitude, description |-> page.description,
     citizenContact |-> page.citizenContact]

\* reportForm.reset(): every control of the form back to its default value,
\* the location inputs included
reset(pg) ==
    [pg EXCEPT !.latitude = "", !.longitude = "",
               !.issueType = "", !.description = "", !.citizenContact = ""]

\* getGeoLocation(): a location request is left outstanding, or, without
\* navigator.geolocation, the button is disabled
getGeoLocation(pg) ==
    IF pg.geolocation
    THEN [pg EXCEPT !.geoRequests = @ + 1]
    ELSE [pg EXCEPT !.submitDisabled = TRUE]

\* the outcomes of fetch('/api/report') for a form body: the 201, a 400 or
\* 500 answer, or a rejected fetch
FetchOutcomes(body) ==
    IF MissingRequired(body) THEN {"not_ok", "rejected"} ELSE {"ok", "not_ok", "rejected"}

\* the citizen fills a field of the form in, or empties it
TypeField ==
    /\ \E f \in TypedFields : \E v \in {"", TypedValue(f)} :
          /\ page[f] # v
          /\ page' = [page EXCEPT ![f] = v]
    /\ UNCHANGED <<issues, now, pc, loc, last>>

\* success callback of getCurrentPosition: the inputs are filled, the button enabled
GeoSuccess ==
    /\ page.geoRequests > 0
    /\ \E pos \in Positions :
          page' = [page EXCEPT !.latitude = pos.latitude, !.longitude = pos.longitude,
                               !.submitDisabled = FALSE, !.geoRequests = @ - 1]
    /\ UNCHANGED <<issues, now, pc, loc, last>>

\* error callback of getCurrentPosition: the button is disabled
GeoError ==
    /\ page.geoRequests > 0
    /\ page' = [page EXCEPT !.submitDisabled = TRUE, !.geoRequests = @ - 1]
    /\ UNCHANGED <<issues, now, pc, loc, last>>

\* submit event of the report form (an enabled button only): the button is
\* disabled, the form data collected, fetch called
SubmitReport ==
    /\ ~page.submitDisabled
    /\ page.geoRequests + Len(page.fetches) < MaxOutstanding
    /\ page' = [page EXCEPT !.submitDisabled = TRUE, !.fetches = Append(@, FormData)]
    /\ UNCHANGED <<issues, now, pc, loc, last>>

\* the awaited fetch settles: on an ok answer the success message, reset()
\* and getGeoLocation(); otherwise the error message; finally the button is
\* enabled
FetchSettles ==
    /\ \E k \in 1..Len(page.fetches) : \E outcome \in FetchOutcomes(page.fetches[k]) :
          LET rest == [page EXCEPT !.fetches =
                          SubSeq(@, 1, k - 1) \o SubSeq(@, k + 1, Len(@))]
              after == IF outcome = "ok"
                       THEN getGeoLocation(reset([rest EXCEPT !.reportResult = "success"]))
                       ELSE [rest EXCEPT !.reportResult = "error"]
          IN page' = [after EXCEPT !.submitDisabled = FALSE]
    /\ UNCHANGED <<issues, now, pc, loc, last>>

(* ---------------- environment ---------------- *)

\* time passes
Tick ==
    /\ now < MaxTime
    /\ now' = now + 1
    /\ last' = NoLast
    /\ UNCHANGED <<issues, pc, loc, page>>

\* the intake and lifecycle handlers, with the clock
Next ==
    \/ \E p \in Procs : CreateStart(p)
    \/ \E p \in Procs : CreateSave(p)
    \/ \E p \in Procs : StatusStart(p)
    \/ \E p \in Procs : StatusUpdate(p)
    \/ \E p \in Procs : TrackStatus(p)
    \/ Tick

Spec == Init /\ [][Next]_vars

\* the handlers that write the collection: create, status update, assignment
NextWriters ==
    \/ \E p \in Procs : CreateStart(p)
    \/ \E p \in Procs : CreateSave(p)
    \/ \E p \in Procs : StatusStartResolve(p)
    \/ \E p \in Procs : StatusUpdate(p)
    \/ \E p \in Procs : AssignFind(p)
    \/ \E p \in Procs : AssignSave(p)
    \/ \E p \in Procs : AssignPopulate(p)

SpecWriters == Init /\ [][NextWriters]_vars

\* the lifecycle handlers with the analytics aggregator
NextAnalytics ==
    \/ \E p \in Procs : CreateStart(p)
    \/ \E p \in Procs : CreateSave(p)
    \/ \E p \in Procs : StatusStart(p)
    \/ \E p \in Procs : StatusUpdate(p)
    \/ \E p \in Procs : AnalyticsFind(p)
    \/ \E p \in Procs : AnalyticsTrend(p)
    \/ \E p \in Procs : AnalyticsStatus(p)
    \/ Tick

SpecAnalytics == Init /\ [][NextAnalytics]_vars

\* every handler that looks an issue up by its tracking id
NextLookups ==
    \/ \E p \in Procs : CreateStart(p)
    \/ \E p \in Procs : CreateSave(p)
    \/ \E p \in Procs : StatusStartResolve(p)
    \/ \E p \in Procs : StatusUpdate(p)
    \/ \E p \in Procs : AssignFind(p)
    \/ \E p \in Procs : AssignSave(p)
    \/ \E p \in Procs : AssignPopulate(p)
    \/ \E p \in Procs : TrackStatus(p)

SpecLookups == Init /\ [][NextLookups]_vars

\* the categories of the issues a collection found at start-up may hold
SeedCategories == {"Pothole", "Garbage Overflow", "Other"}
\* a collection left by earlier runs of the server: one Pending issue per
\* category of the list, as POST /report stores them, with ids that differ
SeededCollection(cats) ==
    [k \in 1..Len(cats) |-> [NewIssue(FullBody(cats[k]), k - 1) EXCEPT !.createdAt = 0]]
SeededCollections ==
    {SeededCollection(cats) : cats \in UNION {[1..n -> SeedCategories] : n \in 0..MaxSeeded}}

\* the server starts on a collection that already holds issues
InitSeeded ==
    /\ issues \in SeededCollections
    /\ now = 0
    /\ pc = [p \in Procs |-> "idle"]
    /\ loc = [p \in Procs |-> NoLoc]
    /\ last = NoLast
    /\ page = LoadedPage(TRUE)

\* the analytics aggregator with the intake, over a collection of any mix of
\* categories
NextTrend ==
    \/ \E p \in Procs : CreateStartAnyCategory(p)
    \/ \E p \in Procs : CreateSave(p)
    \/ \E p \in Procs : AnalyticsFind(p)
    \/ \E p \in Procs : AnalyticsTrend(p)
    \/ \E p \in Procs : AnalyticsStatus(p)

SpecTrend == InitSeeded /\ [][NextTrend]_vars

\* the two handlers that notify, with citizens of different contacts
NextNotify ==
    \/ \E p \in Procs : CreateStartAnyContact(p)
    \/ \E p \in Procs : CreateSave(p)
    \/ \E p \in Procs : StatusStart(p)
    \/ \E p \in Procs : StatusUpdate(p)

SpecNotify == Init /\ [][NextNotify]_vars

\* the citizen portal loads in a browser with or without geolocation
InitPortal ==
    /\ issues = << >>
    /\ now = 0
    /\ pc = [p \in Procs |-> "idle"]
    /\ loc = [p \in Procs |-> NoLoc]
    /\ last = NoLast
    /\ page \in {LoadedPage(g) : g \in BOOLEAN}

\* the events of the citizen portal page
NextPortal ==
    \/ TypeField
    \/ GeoSuccess
    \/ GeoError
    \/ SubmitReport
    \/ FetchSettles

SpecPortal == InitPortal /\ [][NextPortal]_vars

\* intake alone, over every category: create and tracking
NextIntake ==
    \/ \E p \in Procs : CreateStartAnyCategory(p)
    \/ \E p \in Procs : CreateSave(p)
    \/ \E p \in Procs : TrackStatus(p)

SpecIntake == Init /\ [][NextIntake]_vars

(* ---------------- properties ---------------- *)

\* C1: no two stored issues ever share the same tracking id, whatever the
\* interleaving of create, status update and assignment, concurrent creates
\* that drew the same id included.
UniqueTrackingIds ==
    \A i, j \in 1..Len(issues) : i # j => issues[i].issueId # issues[j].issueId

\* C1 witness: a create whose id was already taken was turned away by the index
DuplicateInsertRejected ==
    /\ last.kind = "report"
    /\ last.error = "DuplicateKey"
    /\ Len(issues) >= 1

\* C2: for every stored issue (with an enumerated status), resolvedAt is set
\* if and only if the status is Resolved.
ResolvedAtIffResolved ==
    \A i \in 1..Len(issues) :
        issues[i].status \in StatusEnum =>
            (issues[i].resolvedAt # NoDate <=> issues[i].status = "Resolved")

\* some id the generator can draw is not in the collection
FreeIdAvailable == \E u \in RandDraws : generateIssueId(u) \notin StoredIds

\* C3: a create whose insert met a DuplicateKey while a free id was available
\* does not end in a failure: the id is regenerated and the insert retried.
RetryOnDuplicateKey ==
    ~(/\ last.kind = "report"
      /\ last.error = "DuplicateKey"
      /\ last.code = 500
      /\ FreeIdAvailable)

\* a 6-digit numeric string in [100000, 999999]
IsSixDigitId(id) ==
    /\ Len(id) = 6
    /\ \A k \in 1..Len(id) : id[k] \in 0..9
    /\ id[1] >= 1

\* C4: every create with all required fields present (a category of the
\* enumeration, the store reachable) answers with a 6-digit tracking id, and
\* the issue tracked by that id right after is Pending with resolvedAt absent.
CreateReturnsTrackableId ==
    (/\ last.kind = "report"
     /\ ~MissingRequired(last.body)
     /\ last.body.issueType \in IssueTypeEnum
     /\ last.error # "StoreUnavailable")
    => /\ last.code = 201
       /\ IsSixDigitId(last.issueId)
       /\ findOne(last.issueId) # << >>
       /\ findOne(last.issueId)[1].status = "Pending"
       /\ findOne(last.issueId)[1].resolvedAt = NoDate

\* C5: a status update whose status is outside the enumeration writes nothing
\* and is answered as a validation error, so that every stored status is one
\* of Pending, Acknowledged, In Progress, Resolved.
StatusOutsideEnumRejected ==
    /\ \A i \in 1..Len(issues) : issues[i].status \in StatusEnum
    /\ (/\ last.kind = "update_status"
        /\ last.status \notin StatusEnum
        /\ last.error # "StoreUnavailable")
       => (~last.wrote /\ last.code \in {400, 404})

\* C6: an assignment to a staff id that matches no user is answered NotFound
\* and writes nothing, so that no issue refers to a user that does not exist.
AssignChecksStaffExists ==
    /\ \A i \in 1..Len(issues) : issues[i].assignedTo \in {NoUser} \cup UserIds
    /\ (last.kind = "assign_issue" /\ last.userId \notin UserIds)
       => (~last.wrote /\ last.code # 200)

\* C7: resolvedAt is set once: no step replaces the resolvedAt of an issue
\* that is already Resolved.
ResolvedAtSetOnce ==
    [][\A i \in 1..Len(issues) :
         (issues[i].status = "Resolved" /\ issues[i].resolvedAt # NoDate)
            => issues'[i].resolvedAt = issues[i].resolvedAt]_vars

\* C8: a create or status update that persisted its record answers with
\* success, whether or not the gateway delivered the notification.
NotificationNeverFailsOperation ==
    (last.kind \in {"report", "update_status"} /\ last.wrote)
    => (last.code \in {200, 201} /\ last.error = "")

\* C8 witness: the record was persisted and the gateway failed to deliver
PersistedButNotDelivered ==
    /\ last.kind \in {"report", "update_status"}
    /\ last.wrote
    /\ Len(last.sent) = 1
    /\ ~last.sent[1].delivered

\* the resolution time of every document read is non-negative
NoNegativeDuration(docs) ==
    \A k \in 1..Len(docs) : docs[k].resolvedAt >= docs[k].createdAt

\* C9: a summary computed over a Resolved issue whose resolvedAt is strictly
\* later than its createdAt reports a nonzero average resolution time.
ResolvedLaterGivesNonzeroAverage ==
    (/\ last.kind = "analytics"
     /\ last.code = 200
     /\ NoNegativeDuration(last.resolvedIssues)
     /\ \E k \in 1..Len(last.resolvedIssues) :
            last.resolvedIssues[k].resolvedAt > last.resolvedIssues[k].createdAt)
    => last.summary[1].avgResolutionTimeHours # toFixed1(0, 1)

\* the issues that qualify: Resolved, resolvedAt and createdAt both present
Qualifying(docs) ==
    {k \in 1..Len(docs) :
        /\ docs[k].status = "Resolved"
        /\ docs[k].resolvedAt # NoDate
        /\ docs[k].createdAt # NoDate}

RECURSIVE SumCreatedToResolvedMs(_, _)
SumCreatedToResolvedMs(docs, ks) ==
    IF ks = {} THEN 0
    ELSE LET k == CHOOSE x \in ks : TRUE IN
         (docs[k].resolvedAt - docs[k].createdAt) * TickMs
            + SumCreatedToResolvedMs(docs, ks \ {k})

\* the mean of resolvedAt - createdAt over the qualifying issues, 0 when none
MeanResolutionHours(docs) ==
    IF Qualifying(docs) = {} THEN toFixed1(0, 1)
    ELSE toFixed1(SumCreatedToResolvedMs(docs, Qualifying(docs)),
                  Cardinality(Qualifying(docs)))

\* C10: the average resolution time of a summary is the mean of
\* resolvedAt - createdAt over exactly the qualifying issues it read, and 0
\* when none qualifies.
AverageIsMeanOverQualifying ==
    (/\ last.kind = "analytics"
     /\ last.code = 200
     /\ NoNegativeDuration(last.resolvedIssues))
    => last.summary[1].avgResolutionTimeHours = MeanResolutionHours(last.resolvedIssues)

\* the step of handler p is a status update that was applied to issue i
StatusApplied(p, i) ==
    /\ pc[p] = "status_update"
    /\ pc'[p] = "idle"
    /\ last'.wrote
    /\ Matching(loc[p].issueId) # {}
    /\ i = FirstMatch(loc[p].issueId)

RoutingTable ==
    [c \in RoutedCategories |->
        CASE c = "Pothole" -> "Public Works"
          [] c = "Garbage Overflow" -> "Sanitation"
          [] c = "Streetlight Outage" -> "Electrical"
          [] c = "Water Leakage" -> "Water Department"
          [] OTHER -> "General Services"]

\* C12: the router gives every category its department of the table (Other
\* and a value outside the enumeration: General Services), and every stored
\* issue's department is the router's result for its category and one of the
\* five departments.
RouterTotalAndStored ==
    /\ \A p \in Procs :
          pc[p] = "create_save" =>
             /\ loc[p].issue[1].assignedDepartment = RoutingTable[loc[p].body.issueType]
             /\ loc[p].issue[1].assignedDepartment \in DepartmentEnum
    /\ \A i \in 1..Len(issues) :
          /\ issues[i].assignedDepartment = RoutingTable[issues[i].issueType]
          /\ issues[i].assignedDepartment \in DepartmentEnum

\* C12 witness: an issue stored under its category's department while a
\* report of a category outside the enumeration has been routed
StoredAndOutsideRouted ==
    /\ Len(issues) = 1
    /\ issues[1].issueType = "Water Leakage"
    /\ issues[1].assignedDepartment = "Water Department"
    /\ \E p \in Procs :
          /\ pc[p] = "create_save"
          /\ loc[p].body.issueType = "Fountain"
          /\ loc[p].issue[1].assignedDepartment = "General Services"

\* the fields a report must carry
RequiredFields == {"issueType", "latitude", "longitude", "description", "citizenContact"}

\* C13: a create with any of category, latitude, longitude, description or
\* contact missing is answered 400 (ValidationError), persists no issue and
\* sends no notification: the collection is unchanged.
MissingFieldRejected ==
    [][(/\ last'.kind = "report"
        /\ \E f \in RequiredFields : last'.body[f] = "")
         => /\ last'.code = 400
            /\ ~last'.wrote
            /\ last'.sent = << >>
            /\ issues' = issues]_vars

\* C13 witness: a report without a contact turned away from a collection that
\* holds an issue
ContactMissingRejected ==
    /\ last.kind = "report"
    /\ last.body.citizenContact = ""
    /\ last.code = 400
    /\ Len(issues) = 1

\* the exchange is a well-formed lookup request that the store served
ServedLookup(x) ==
    /\ x.kind \in {"update_status", "assign_issue", "track_status"}
    /\ x.reqIssueId # << >>
    /\ x.kind = "update_status" => x.status # ""
    /\ x.kind = "assign_issue" => x.userId # ""
    /\ x.error = ""

\* C14: a status update, an assignment or a tracking request whose tracking
\* id matches no stored issue is answered 404 (NotFound), creates no issue,
\* changes no stored issue and sends no notification.
UnknownIdNotFound ==
    [][(ServedLookup(last') /\ last'.reqIssueId \notin StoredIds)
         => /\ last'.code = 404
            /\ issues' = issues
            /\ ~last'.wrote
            /\ last'.sent = << >>]_vars

\* C14 witness: a status update for an id that is not in a collection holding
\* another issue, answered 404
StatusUpdateOfUnknownId ==
    /\ last.kind = "update_status"
    /\ last.code = 404
    /\ Len(issues) = 1
    /\ last.reqIssueId \notin StoredIds

\* C15: once an issue is Resolved, no later status update changes its status.
ResolvedIsTerminal ==
    [][\A i \in 1..Len(issues) :
         issues[i].status = "Resolved" => issues'[i].status = "Resolved"]_vars

\* the stored issues that carry the tracking id of handler p's request
Targets(p) == {j \in 1..Len(issues) : issues[j].issueId = loc[p].issueId}
\* the step of handler p applies its status update
StatusWrites(p) == pc[p] = "status_update" /\ pc'[p] = "idle" /\ last'.wrote
\* the step of handler p saves its assignment
AssignWrites(p) == pc[p] = "assign_save" /\ pc'[p] = "assign_populate"

\* C16: whatever other requests are in flight, the write of a status update
\* or of an assignment takes effect on the issue it names exactly as it would
\* alone, and leaves every other issue as it was.
WritesOnDistinctIssuesIndependent ==
    [][\A p \in Procs :
         /\ StatusWrites(p) =>
               /\ \A j \in Targets(p) :
                     /\ issues'[j].status = loc[p].status
                     /\ loc[p].status = "Resolved" =>
                            issues'[j].resolvedAt = loc[p].updateData.resolvedAt
               /\ \A j \in (1..Len(issues)) \ Targets(p) : issues'[j] = issues[j]
         /\ AssignWrites(p) =>
               /\ \A j \in Targets(p) : issues'[j].assignedTo = loc[p].userId
               /\ \A j \in (1..Len(issues)) \ Targets(p) : issues'[j] = issues[j]]_vars

\* C16 witness: a status update of one issue answered while an assignment of
\* another issue is between its save and its answer; both writes are stored
BothConcurrentWritesStored ==
    /\ last.kind = "update_status"
    /\ last.code = 200
    /\ \E i \in 1..Len(issues) :
          /\ issues[i].issueId = last.reqIssueId
          /\ issues[i].status = "Resolved"
          /\ issues[i].assignedTo = NoUser
    /\ \E q \in Procs :
          /\ pc[q] = "assign_populate"
          /\ loc[q].issueId # last.reqIssueId
          /\ issues[loc[q]._id].assignedTo = loc[q].userId
          /\ issues[loc[q]._id].status = "Pending"

\* C17: no status update and no assignment changes the tracking id, the
\* category or the department of an existing issue.
IdentityFieldsFrozen ==
    [][\A i \in 1..Len(issues) :
         /\ issues'[i].issueId = issues[i].issueId
         /\ issues'[i].issueType = issues[i].issueType
         /\ issues'[i].assignedDepartment = issues[i].assignedDepartment]_vars

\* C17 witness: an issue that was both resolved and assigned still carries its
\* category and the department it was routed to
ResolvedAssignedKeepsRouting ==
    \E i \in 1..Len(issues) :
        /\ issues[i].status = "Resolved"
        /\ issues[i].assignedTo = "u1"
        /\ issues[i].issueType = "Pothole"
        /\ issues[i].assignedDepartment = "Public Works"
        /\ IsSixDigitId(issues[i].issueId)

\* the number of stored issues of a category
StoredOfCategory(c) == Cardinality({i \in 1..Len(issues) : issues[i].issueType = c})

\* the entries of a trend are in non-increasing order of count and the
\* category the dashboard shows as most reported has the greatest count
OrderedByCount(t) ==
    /\ \A k \in 1..(Len(t) - 1) : t[k].count >= t[k + 1].count
    /\ \A k \in 1..Len(t) : t[k]._id = mostReported(t) => \A m \in 1..Len(t) : t[k].count >= t[m].count

\* C18: the category trend read by the aggregator lists each category present
\* in the collection once, with the number of stored issues of that category,
\* and the trend of every summary returned is in non-increasing order of
\* count, so that its first entry is a most-reported category.
TrendCountsCategoriesInOrder ==
    [][/\ \A p \in Procs :
            (pc[p] = "analytics_trend" /\ pc'[p] = "analytics_status") =>
                LET t == loc'[p].trendData IN
                /\ {t[k]._id : k \in 1..Len(t)} = {issues[i].issueType : i \in 1..Len(issues)}
                /\ \A a, b \in 1..Len(t) : a # b => t[a]._id # t[b]._id
                /\ \A k \in 1..Len(t) : t[k].count = StoredOfCategory(t[k]._id)
                /\ OrderedByCount(t)
       /\ (last'.kind = "analytics" /\ last'.code = 200) =>
                OrderedByCount(last'.summary[1].trendData)]_vars

\* C18 witness: a summary whose trend has two categories with different
\* counts, the larger first
TrendWithUnequalCounts ==
    /\ last.kind = "analytics"
    /\ last.code = 200
    /\ Len(last.summary[1].trendData) = 2
    /\ last.summary[1].trendData[1].count = 2
    /\ last.summary[1].trendData[2].count = 1

\* the exchange sent exactly one message, to the contact and about the id given
SentOnce(x, contact, id) ==
    /\ Len(x.sent) = 1
    /\ x.sent[1].to = contact
    /\ x.sent[1].about = id

\* C19: a create that succeeds has sent exactly one confirmation, to the
\* submitted contact, and its issue is in the collection; a status update
\* that succeeds has sent exactly one message, to the contact of the stored
\* issue, and the collection holds the new status; a create or status update
\* that did not persist has sent nothing.
NotificationFollowsPersistence ==
    /\ (last.kind = "report" /\ last.code = 201) =>
          /\ SentOnce(last, last.body.citizenContact, last.issueId)
          /\ \E i \in 1..Len(issues) :
                /\ issues[i].issueId = last.issueId
                /\ issues[i].citizenContact = last.body.citizenContact
    /\ (last.kind = "update_status" /\ last.code = 200) =>
          \E i \in 1..Len(issues) :
              /\ issues[i].issueId = last.reqIssueId
              /\ issues[i].status = last.status
              /\ SentOnce(last, issues[i].citizenContact, last.reqIssueId)
    /\ (last.kind \in {"report", "update_status"} /\ ~last.wrote) => last.sent = << >>
    /\ (last.kind \in {"report", "update_status"} /\ last.code \notin {200, 201}) =>
          last.sent = << >>

\* C19 witness: with issues of two contacts stored, a status update of the
\* second contact's issue has sent its message to that contact
StatusMessageToOwnContact ==
    /\ last.kind = "update_status"
    /\ last.code = 200
    /\ Len(issues) = 2
    /\ issues[1].citizenContact = "c1"
    /\ issues[2].citizenContact = "c2"
    /\ issues[2].issueId = last.reqIssueId
    /\ last.sent[1].to = "c2"

\* the sum of the counts of a set of groups
RECURSIVE SumOfCounts(_)
SumOfCounts(groups) ==
    IF groups = {} THEN 0
    ELSE LET g == CHOOSE x \in groups : TRUE IN g.count + SumOfCounts(groups \ {g})

\* the totals a summary shows: over its category trend, over its status distribution
TrendTotal(summary) == SumOfCounts({summary.trendData[k] : k \in 1..Len(summary.trendData)})
StatusTotal(summary) == SumOfCounts(summary.statusCounts)

\* C20: in every summary returned, the counts of the category trend and the
\* counts of the status distribution sum to the same total.
SummaryIsSnapshot ==
    (last.kind = "analytics" /\ last.code = 200) =>
        TrendTotal(last.summary[1]) = StatusTotal(last.summary[1])

\* C21: with a status update and an assignment of the same issue in flight
\* together, the assignment's save keeps the status and resolvedAt the store
\* holds (not the ones it read) and sets assignedTo; the status update keeps
\* the assignedTo the store holds and sets the status: neither write undoes
\* the other.
NeitherUpdateLost ==
    [][/\ \A q \in Procs :
            AssignWrites(q) =>
                LET j == loc[q]._id IN
                /\ issues'[j].assignedTo = loc[q].userId
                /\ issues'[j].status = issues[j].status
                /\ issues'[j].resolvedAt = issues[j].resolvedAt
       /\ \A p \in Procs :
            StatusWrites(p) =>
                \A j \in Targets(p) :
                    /\ issues'[j].status = loc[p].status
                    /\ issues'[j].assignedTo = issues[j].assignedTo]_vars

\* C21 witness: the assignment read the issue as Pending, the status update
\* resolved it, the assignment saved: the store holds both Resolved and the
\* staff member
StatusUpdateBetweenReadAndSave ==
    \E q \in Procs :
        /\ pc[q] = "assign_populate"
        /\ loc[q].issue[1].status = "Pending"
        /\ loc[q].userId = "u1"
        /\ issues[loc[q]._id].status = "Resolved"
        /\ issues[loc[q]._id].assignedTo = "u1"

\* C22: in every state of the citizen portal where the submit button is
\* enabled, the latitude and longitude fields are filled.
EnabledOnlyWithLocation ==
    ~page.submitDisabled => (page.latitude # "" /\ page.longitude # "")

====
